---- MODULE Spec2Model ----
(***************************************************************************)
(* BikeNYCDeepSTN (geotorchai/datasets/grid/nyc_bike_deepstn.py): the      *)
(* dataset object as a state machine.  The constructor loads the flow      *)
(* series, normalises it, and builds the closeness / period / trend        *)
(* windows, the temporal mask, the POI array and the target; two setup     *)
(* calls switch the sample-access mode; __len__ and __getitem__ read the   *)
(* arrays the active mode selects.                                         *)
(*                                                                         *)
(* Arrays are sequences over the leading (sample / timestep) axis.  A      *)
(* frame of the flow series is one scalar (the value every cell of the     *)
(* frame holds), a window sample is the sequence of its channel chunks,    *)
(* one chunk per lag, and a mask is the sequence of its 24 + 7 channels,   *)
(* each 0 or 1 over the whole grid.  Python indices are 0-based: element   *)
(* i of an array a is a[i + 1] here.                                       *)
(***************************************************************************)
EXTENDS Integers, Sequences, FiniteSets, TLC

\* ---------------------------------------------------------------- bounds
\* window lengths len_closeness, len_period, len_trend range over 0..MaxLen
MaxLen == 2
\* steps T_closeness, T_period, T_trend range over 1..MaxT
MaxT == 3
\* the flow series has 0..MaxTotal timesteps (plus one long series)
MaxTotal == 3
\* history_length and prediction_length range over 0..MaxHist
MaxHist == 1
\* lead_time ranges over 0..MaxLead
MaxLead == 2

\* ------------------------------------------------------ program constants
\* channels of the hour block of the temporal mask
HourChannels == 24
\* channels of the day block of the temporal mask
DayChannels == 7

VARIABLES
    flow_data,        \* content of flow_data.npy: one scalar frame per timestep
    cfg,              \* the constructor's arguments
    phase,            \* "new" before __init__, then "ready" or "failed"
    exc,              \* exception raised by the last call, "none" if it returned
    lastCall,         \* the last call made and its arguments
    lastDone,         \* the last constructor / setup call that returned
    number_of_skip_hours,
    full_data, min_max_diff,
    X_closeness, X_period, X_trend, T_data, P_data, Y_data,
    X_data, lead_time_data, lead_time,
    use_lead_time, sequential, periodical

vars == <<flow_data, cfg, phase, exc, lastCall, lastDone, number_of_skip_hours,
          full_data, min_max_diff,
          X_closeness, X_period, X_trend, T_data, P_data, Y_data,
          X_data, lead_time_data, lead_time,
          use_lead_time, sequential, periodical>>

\* ------------------------------------------------------------ the inputs
\* flow_data.npy with n timesteps: the synthetic series raw[t] = t
FlowFile(n) == [t \in 1..n |-> t - 1]

\* poi_data.npy: two channels of two cells each
PoiFile == << <<1, 2>>, <<4, 2>> >>

\* constructor arguments over a short series
SmallConfigs ==
    [len_closeness : 0..MaxLen, len_period : 0..MaxLen, len_trend : 0..MaxLen,
     T_closeness : 1..MaxT, T_period : 1..MaxT, T_trend : 1..MaxT,
     normalize : BOOLEAN, len_total : 0..MaxTotal]

\* constructor arguments over a series longer than the hour block, with the
\* default day length and one past it
LongConfigs ==
    [len_closeness : {1}, len_period : {1}, len_trend : {1},
     T_closeness : {1}, T_period : (1..MaxT) \cup {HourChannels, HourChannels + 1},
     T_trend : {1, HourChannels},
     normalize : {TRUE}, len_total : {HourChannels + 1}]

Configs == SmallConfigs \cup LongConfigs

\* the configurations with one step for the three scales, and the long
\* series: the datasets the mode switches are explored on
OneStepConfigs ==
    {c \in SmallConfigs : c.T_closeness = c.T_period /\ c.T_period = c.T_trend}
    \cup LongConfigs

\* --------------------------------------------------------- array helpers
SeqMax(s) == CHOOSE x \in {s[i] : i \in 1..Len(s)} :
                 \A y \in {s[i] : i \in 1..Len(s)} : y <= x
SeqMin(s) == CHOOSE x \in {s[i] : i \in 1..Len(s)} :
                 \A y \in {s[i] : i \in 1..Len(s)} : x <= y

\* a slice bound as Python adjusts it against an axis of length n
PyBound(i, n) ==
    IF i < 0 THEN (IF i + n < 0 THEN 0 ELSE i + n)
    ELSE IF i > n THEN n ELSE i

\* a[start:stop] along the leading axis
PySlice(a, start, stop) ==
    LET lo == PyBound(start, Len(a))
        hi == PyBound(stop, Len(a))
    IN  IF hi <= lo THEN <<>> ELSE [j \in 1..(hi - lo) |-> a[lo + j]]

\* (2.0 * x - (max + min)) / (max - min), kept as the fraction <<num, den>>;
\* <<0, 0>> is numpy's nan
Normalized(x, max_data, min_data) == <<2 * x - (max_data + min_data), max_data - min_data>>

\* a frame seen as a fraction, when normalize is off
Plain(x) == <<x, 1>>

\* poi[i] / np.max(poi[i]), cell by cell, kept as fractions
PoiNormalized(poi) ==
    [c \in 1..Len(poi) |-> [k \in 1..Len(poi[c]) |-> <<poi[c][k], SeqMax(poi[c])>>]]

\* ------------------------------------------------------- temporal encoder
OneHot(width, idx) == [c \in 1..width |-> IF c = idx + 1 THEN 1 ELSE 0]

time_hour(i, T_period) == i % T_period
time_day(i, T_period) == (i \div T_period) % DayChannels

\* matrix_hour[i, time_hour[i], :, :] = 1 is an IndexError when the hour index
\* lies outside the block
MaskIndexError(len_total, T_period) ==
    \E i \in 0..(len_total - 1) : time_hour(i, T_period) >= HourChannels

\* matrix_T: per timestep the hour block followed by the day block
matrix_T(len_total, T_period) ==
    [t \in 1..len_total |->
        OneHot(HourChannels, time_hour(t - 1, T_period))
        \o OneHot(DayChannels, time_day(t - 1, T_period))]

\* --------------------------------------------------------- window slicer
\* the skip offset; -1 stands for "no branch taken" (InvalidParametersException)
SkipHours(c) ==
    IF c.len_trend > 0 THEN c.T_trend * c.len_trend
    ELSE IF c.len_period > 0 THEN c.T_period * c.len_period
    ELSE IF c.len_closeness > 0 THEN c.T_closeness * c.len_closeness
    ELSE -1

\* all_data[skip - T*k : len_total - T*k]
Lag(all_data, skip, T, k) ==
    PySlice(all_data, skip - T * k, Len(all_data) - T * k)

\* the loop "for i in range(L - 1): X = np.concatenate((X, lag 2+i), axis=1)";
\* np.concatenate raises ValueError when the leading dimensions differ
RECURSIVE ConcatLags(_, _, _, _, _, _)
ConcatLags(X, all_data, skip, T, i, L) ==
    IF i >= L - 1 THEN [ok |-> TRUE, arr |-> X]
    ELSE LET nxt == Lag(all_data, skip, T, 2 + i)
         IN  IF Len(nxt) # Len(X) THEN [ok |-> FALSE, arr |-> <<>>]
             ELSE ConcatLags([j \in 1..Len(X) |-> Append(X[j], nxt[j])],
                             all_data, skip, T, i + 1, L)

\* one scale's window: the first lag, then the remaining lags concatenated
ScaleWindow(all_data, skip, T, L) ==
    LET first == Lag(all_data, skip, T, 1)
    IN  ConcatLags([j \in 1..Len(first) |-> <<first[j]>>], all_data, skip, T, 0, L)

\* ------------------------------------------------- _create_feature_vector
\* what _create_feature_vector computes from the normalised series, the POI
\* grid and the constructor's arguments: the exception it raises ("none" when
\* it returns) and the arrays it leaves on the object
CreateFeatureVector(all_data, poi, c) ==
    LET len_total == Len(all_data)
        skip == SkipHours(c)
        mT == matrix_T(len_total, c.T_period)
        Y == PySlice(all_data, skip, len_total)
        Xc == ScaleWindow(all_data, skip, c.T_closeness, c.len_closeness)
        Xp == ScaleWindow(all_data, skip, c.T_period, c.len_period)
        Xt == ScaleWindow(all_data, skip, c.T_trend, c.len_trend)
        len_data == Len(Xc.arr)
        none == [exc |-> "none", skip |-> 0, X_closeness |-> <<>>, X_period |-> <<>>,
                 X_trend |-> <<>>, T_data |-> <<>>, P_data |-> <<>>, Y_data |-> <<>>]
    IN  IF MaskIndexError(len_total, c.T_period)
            THEN [none EXCEPT !.exc = "IndexError"]
        ELSE IF skip < 0
            THEN [none EXCEPT !.exc = "InvalidParametersException"]
        ELSE IF \/ c.len_closeness > 0 /\ ~Xc.ok
                \/ c.len_period > 0 /\ ~Xp.ok
                \/ c.len_trend > 0 /\ ~Xt.ok
            THEN [none EXCEPT !.exc = "ValueError", !.skip = skip]
        ELSE IF c.len_closeness <= 0 \/ c.len_period <= 0 \/ c.len_trend <= 0
            THEN [none EXCEPT !.exc = "AttributeError", !.skip = skip]
        ELSE [exc |-> "none", skip |-> skip,
              X_closeness |-> Xc.arr, X_period |-> Xp.arr, X_trend |-> Xt.arr,
              T_data |-> PySlice(mT, skip, len_total),
              P_data |-> [j \in 1..len_data |-> PoiNormalized(poi)],
              Y_data |-> Y]

\* the normalised copy of the flow series the constructor keeps
FullData(flow, normalize) ==
    LET max_data == SeqMax(flow)
        min_data == SeqMin(flow)
    IN  [t \in 1..Len(flow) |->
            IF normalize THEN Normalized(flow[t], max_data, min_data) ELSE Plain(flow[t])]

\* ---------------------------------------------------------------- states
\* before the constructor runs: its arguments and the file are chosen, no
\* attribute is assigned
Created(configs) ==
    /\ cfg \in configs
    /\ flow_data = FlowFile(cfg.len_total)
    /\ phase = "new"
    /\ exc = "none"
    /\ lastCall = [op |-> "none", a |-> 0, b |-> 0]
    /\ lastDone = "none"
    /\ number_of_skip_hours = 0
    /\ full_data = <<>>
    /\ min_max_diff = 0
    /\ X_closeness = <<>> /\ X_period = <<>> /\ X_trend = <<>>
    /\ T_data = <<>> /\ P_data = <<>> /\ Y_data = <<>>
    /\ X_data = <<>> /\ lead_time_data = <<>> /\ lead_time = 0
    /\ use_lead_time = FALSE /\ sequential = FALSE /\ periodical = FALSE

Init == Created(Configs)

InitModes == Created(OneStepConfigs)

Fields == <<number_of_skip_hours, full_data, min_max_diff,
            X_closeness, X_period, X_trend, T_data, P_data, Y_data,
            X_data, lead_time_data, lead_time,
            use_lead_time, sequential, periodical>>

\* __init__ raising: no object comes to exist
InitRaises(kind) ==
    /\ phase' = "failed"
    /\ exc' = kind
    /\ UNCHANGED <<lastDone, Fields>>

\* __init__: np.max of an empty series raises ValueError; otherwise the series
\* is normalised, the feature arrays are built and the mode is periodical
DunderInit ==
    /\ phase = "new"
    /\ lastCall' = [op |-> "__init__", a |-> 0, b |-> 0]
    /\ UNCHANGED <<flow_data, cfg>>
    /\ IF Len(flow_data) = 0 THEN InitRaises("ValueError")
       ELSE LET all_data == FullData(flow_data, cfg.normalize)
                r == CreateFeatureVector(all_data, PoiFile, cfg)
            IN  IF r.exc # "none" THEN InitRaises(r.exc)
                ELSE /\ phase' = "ready"
                     /\ exc' = "none"
                     /\ lastDone' = "__init__"
                     /\ full_data' = all_data
                     /\ min_max_diff' = SeqMax(flow_data) - SeqMin(flow_data)
                     /\ number_of_skip_hours' = r.skip
                     /\ X_closeness' = r.X_closeness
                     /\ X_period' = r.X_period
                     /\ X_trend' = r.X_trend
                     /\ T_data' = r.T_data
                     /\ P_data' = r.P_data
                     /\ Y_data' = r.Y_data
                     /\ use_lead_time' = FALSE
                     /\ sequential' = FALSE
                     /\ periodical' = TRUE
                     /\ UNCHANGED <<X_data, lead_time_data, lead_time>>

\* the windows set_sequential_representation stacks, one per end_idx of
\* range(history_length + prediction_length, total_length)
history_data(h, p) ==
    LET total_length == Len(full_data)
    IN  [k \in 1..(total_length - (h + p)) |->
            PySlice(full_data, (h + p + k - 1) - p - h, (h + p + k - 1) - p)]

\* predict_data with the prediction window shifted one step late
predict_data_ShiftedLate(h, p) ==
    LET total_length == Len(full_data)
    IN  [k \in 1..(total_length - (h + p)) |->
            PySlice(full_data, (h + p + k - 1) - p + 1, h + p + k)]

predict_data(h, p) ==
    LET total_length == Len(full_data)
    IN  [k \in 1..(total_length - (h + p)) |->
            PySlice(full_data, (h + p + k - 1) - p, h + p + k - 1)]

\* set_sequential_representation: np.stack of an empty list raises ValueError
\* before anything is assigned
SetSequentialRepresentation(history_length, prediction_length) ==
    /\ phase = "ready"
    /\ lastCall' = [op |-> "set_sequential_representation",
                    a |-> history_length, b |-> prediction_length]
    /\ UNCHANGED <<flow_data, cfg, phase>>
    /\ IF Len(full_data) - (history_length + prediction_length) <= 0
       THEN /\ exc' = "ValueError"
            /\ UNCHANGED <<lastDone, Fields>>
       ELSE /\ exc' = "none"
            /\ lastDone' = "set_sequential_representation"
            /\ X_data' = history_data(history_length, prediction_length)
            /\ Y_data' = predict_data(history_length, prediction_length)
            /\ use_lead_time' = FALSE
            /\ sequential' = TRUE
            /\ periodical' = FALSE
            /\ UNCHANGED <<number_of_skip_hours, full_data, min_max_diff,
                           X_closeness, X_period, X_trend, T_data, P_data,
                           lead_time_data, lead_time>>

\* merge_closeness_period_trend that leaves the sequential flag as it was
MergeClosenessPeriodTrend_KeepsSequential(lt) ==
    /\ phase = "ready"
    /\ lastCall' = [op |-> "merge_closeness_period_trend", a |-> lt, b |-> 0]
    /\ exc' = "none"
    /\ lastDone' = "merge_closeness_period_trend"
    /\ lead_time_data' = full_data
    /\ lead_time' = lt
    /\ use_lead_time' = TRUE
    /\ periodical' = FALSE
    /\ UNCHANGED <<flow_data, cfg, phase, number_of_skip_hours, full_data,
                   min_max_diff, X_closeness, X_period, X_trend, T_data, P_data,
                   Y_data, X_data, sequential>>

\* merge_closeness_period_trend that frees the three scale windows
MergeClosenessPeriodTrend_DropsWindows(lt) ==
    /\ phase = "ready"
    /\ lastCall' = [op |-> "merge_closeness_period_trend", a |-> lt, b |-> 0]
    /\ exc' = "none"
    /\ lastDone' = "merge_closeness_period_trend"
    /\ lead_time_data' = full_data
    /\ lead_time' = lt
    /\ use_lead_time' = TRUE
    /\ sequential' = FALSE
    /\ periodical' = FALSE
    /\ X_closeness' = <<>> /\ X_period' = <<>> /\ X_trend' = <<>>
    /\ UNCHANGED <<flow_data, cfg, phase, number_of_skip_hours, full_data,
                   min_max_diff, T_data, P_data, Y_data, X_data>>

\* merge_closeness_period_trend
MergeClosenessPeriodTrend(lt) ==
    /\ phase = "ready"
    /\ lastCall' = [op |-> "merge_closeness_period_trend", a |-> lt, b |-> 0]
    /\ exc' = "none"
    /\ lastDone' = "merge_closeness_period_trend"
    /\ lead_time_data' = full_data
    /\ lead_time' = lt
    /\ use_lead_time' = TRUE
    /\ sequential' = FALSE
    /\ periodical' = FALSE
    /\ UNCHANGED <<flow_data, cfg, phase, number_of_skip_hours, full_data,
                   min_max_diff, X_closeness, X_period, X_trend, T_data, P_data,
                   Y_data, X_data>>

Next ==
    \/ DunderInit
    \/ \E h \in 0..MaxHist, p \in 0..MaxHist : SetSequentialRepresentation(h, p)
    \/ \E lt \in 0..MaxLead : MergeClosenessPeriodTrend(lt)

\* every configuration, then any sequence of calls
Spec == Init /\ [][Next]_vars

\* the one-step configurations and the long series, then any sequence of calls
SpecModes == InitModes /\ [][Next]_vars

\* ------------------------------------------------------------ the reads
\* get_min_max_difference
GetMinMaxDifference == min_max_diff

\* __len__ that forgets to subtract the lead time
DunderLen_IgnoresLeadTime ==
    IF use_lead_time THEN Len(lead_time_data) ELSE Len(Y_data)

\* __len__
DunderLen ==
    IF use_lead_time THEN Len(lead_time_data) - lead_time ELSE Len(Y_data)

\* a[index] on a tensor: negative indices count from the end
InRange(a, index) == -Len(a) <= index /\ index < Len(a)
Item(a, index) == IF index < 0 THEN a[Len(a) + index + 1] ELSE a[index + 1]

\* __getitem__: the sample, or IndexError when an array it reads has no such
\* index
GetItem(index) ==
    IF periodical THEN
        IF /\ InRange(X_closeness, index) /\ InRange(X_period, index)
           /\ InRange(X_trend, index) /\ InRange(T_data, index)
           /\ InRange(P_data, index) /\ InRange(Y_data, index)
        THEN [exc |-> "none",
              sample |-> [x_closeness |-> Item(X_closeness, index),
                          x_period |-> Item(X_period, index),
                          x_trend |-> Item(X_trend, index),
                          t_data |-> Item(T_data, index),
                          p_data |-> Item(P_data, index),
                          y_data |-> Item(Y_data, index)]]
        ELSE [exc |-> "IndexError", sample |-> [none |-> 0]]
    ELSE IF use_lead_time THEN
        IF InRange(lead_time_data, index) /\ InRange(lead_time_data, index + lead_time)
        THEN [exc |-> "none",
              sample |-> [x_data |-> Item(lead_time_data, index),
                          y_data |-> Item(lead_time_data, index + lead_time)]]
        ELSE [exc |-> "IndexError", sample |-> [none |-> 0]]
    ELSE
        IF InRange(X_data, index) /\ InRange(Y_data, index)
        THEN [exc |-> "none",
              sample |-> [x_data |-> Item(X_data, index),
                          y_data |-> Item(Y_data, index)]]
        ELSE [exc |-> "IndexError", sample |-> [none |-> 0]]

\* ------------------------------------------------------------ vocabulary
len_total == Len(flow_data)

\* at least one window length is positive
ValidConfig == cfg.len_closeness > 0 \/ cfg.len_period > 0 \/ cfg.len_trend > 0

\* the three scales of the constructed object: window array, step, length
Scales ==
    {[name |-> "closeness", X |-> X_closeness, T |-> cfg.T_closeness, L |-> cfg.len_closeness],
     [name |-> "period", X |-> X_period, T |-> cfg.T_period, L |-> cfg.len_period],
     [name |-> "trend", X |-> X_trend, T |-> cfg.T_trend, L |-> cfg.len_trend]}

EnabledScales == {s \in Scales : s.L > 0}

\* the largest lag span T_s * len_s over the enabled scales
MaxLagSpan ==
    LET spans == {s.T * s.L : s \in EnabledScales}
    IN  CHOOSE m \in spans : \A x \in spans : x <= m

\* the skip offset by the priority rule trend, period, closeness
PrioritySkip ==
    IF cfg.len_trend > 0 THEN cfg.T_trend * cfg.len_trend
    ELSE IF cfg.len_period > 0 THEN cfg.T_period * cfg.len_period
    ELSE cfg.T_closeness * cfg.len_closeness

\* the leading dimensions of the six arrays of the periodical sample set
SampleCounts == {Len(X_closeness), Len(X_period), Len(X_trend),
                 Len(T_data), Len(P_data), Len(Y_data)}

PeriodicalKeys == {"x_closeness", "x_period", "x_trend", "t_data", "p_data", "y_data"}
SimpleKeys == {"x_data", "y_data"}

\* the number of channels of a mask block that are all ones
Ones(block) == Cardinality({c \in 1..Len(block) : block[c] = 1})

\* ---------------------------------------------------------------- claims
\* C1: for every valid configuration over a non-empty series, construction
\* leaves X_closeness, X_period, X_trend, T_data, P_data and Y_data with one
\* common sample count, and that count is len_total - skip_offset.
C1_EqualSampleCounts ==
    (phase # "new" /\ ValidConfig /\ len_total > 0) =>
        /\ phase = "ready"
        /\ lastDone = "__init__" => SampleCounts = {len_total - number_of_skip_hours}

\* C2: index alignment of the periodical sample set: for every sample index j
\* in [0, len_total - skip) the target is raw[skip + j], and for every enabled
\* scale and every lag k in 1..L the k-th chunk of the scale's window at
\* sample j is the frame of timestep skip + j - T*k.
C2_IndexAlignment ==
    (phase = "ready" /\ lastDone = "__init__") =>
        \A j \in 0..(len_total - number_of_skip_hours - 1) :
            /\ j < Len(Y_data)
            /\ Y_data[j + 1] = full_data[number_of_skip_hours + j + 1]
            /\ \A s \in EnabledScales : \A k \in 1..s.L :
                  /\ number_of_skip_hours + j - s.T * k >= 0
                  /\ j < Len(s.X)
                  /\ s.X[j + 1][k] = full_data[number_of_skip_hours + j - s.T * k + 1]

\* C3: construction over a non-empty series raises the invalid-configuration
\* error exactly when no window length is positive, and in every other
\* configuration it completes with the skip offset of the priority rule.
C3_SkipRuleAndFailure ==
    (phase # "new" /\ len_total > 0) =>
        /\ (exc = "InvalidParametersException") <=> ~ValidConfig
        /\ ValidConfig => (phase = "ready" /\ number_of_skip_hours = PrioritySkip)

\* C4: the skip offset of a constructed dataset is the largest lag span of the
\* enabled scales, so no lagged slice of any enabled scale starts at a
\* negative index.
C4_SkipCoversEveryLag ==
    phase = "ready" =>
        /\ number_of_skip_hours = MaxLagSpan
        /\ \A s \in EnabledScales : \A k \in 1..s.L :
              number_of_skip_hours - s.T * k >= 0

\* C9: whenever every scale is enabled and the skip offset exceeds len_total,
\* construction completes and every scale array, the target, the temporal
\* mask and the POI array have zero samples, so __len__ is 0.
C9_ShortSeriesIsEmpty ==
    (/\ phase # "new"
     /\ len_total > 0
     /\ cfg.len_closeness > 0 /\ cfg.len_period > 0 /\ cfg.len_trend > 0
     /\ PrioritySkip > len_total) =>
        /\ phase = "ready"
        /\ lastDone = "__init__" => (SampleCounts = {0} /\ DunderLen = 0)

\* C10: for every timestep i of a non-empty series and any T_period, building
\* the mask succeeds, the hour block of timestep i has exactly one all-ones
\* channel, at index i mod T_period, and the day block exactly one, at index
\* (i div T_period) mod 7; T_data[j] is the mask of timestep skip + j.
C10_TemporalMask ==
    (phase # "new" /\ len_total > 0) =>
        /\ exc # "IndexError"
        /\ \A i \in 0..(len_total - 1) :
              LET m == matrix_T(len_total, cfg.T_period)[i + 1]
                  hour == SubSeq(m, 1, HourChannels)
                  day == SubSeq(m, HourChannels + 1, HourChannels + DayChannels)
              IN  /\ Ones(hour) = 1
                  /\ i % cfg.T_period < HourChannels
                  /\ hour[(i % cfg.T_period) + 1] = 1
                  /\ Ones(day) = 1
                  /\ day[((i \div cfg.T_period) % 7) + 1] = 1
        /\ (phase = "ready" /\ lastDone = "__init__") =>
              \A j \in 0..(Len(T_data) - 1) :
                  T_data[j + 1] = matrix_T(len_total, cfg.T_period)[number_of_skip_hours + j + 1]

C6_SequentialAsStated ==
    lastCall.op = "set_sequential_representation" =>
        LET h == lastCall.a
            p == lastCall.b
        IN  /\ sequential
            /\ DunderLen = Cardinality((h + p)..(len_total - 1))
            /\ \A i \in 0..(DunderLen - 1) :
                  /\ GetItem(i).exc = "none"
                  /\ GetItem(i).sample =
                        [x_data |-> [m \in 1..h |-> full_data[i + m]],
                         y_data |-> [m \in 1..p |-> full_data[i + h + m]]]

\* C6 amended: a call set_sequential_representation(h, p) with
\* h + p < len_total returns, whatever mode was active, and leaves the mode
\* sequential with __len__ = len_total - h - p and sample i equal to
\* x_data = full[i : i+h], y_data = full[i+h : i+h+p]; a call with
\* h + p >= len_total raises ValueError and changes nothing on the dataset.
C6_SequentialAmended ==
    [][lastCall'.op = "set_sequential_representation" =>
        LET h == lastCall'.a
            p == lastCall'.b
        IN  IF h + p < len_total
            THEN /\ exc' = "none"
                 /\ sequential' /\ ~periodical' /\ ~use_lead_time'
                 /\ DunderLen' = len_total - h - p
                 /\ \A i \in 0..(len_total - h - p - 1) :
                       /\ GetItem(i)'.exc = "none"
                       /\ GetItem(i)'.sample =
                             [x_data |-> [m \in 1..h |-> full_data[i + m]],
                              y_data |-> [m \in 1..p |-> full_data[i + h + m]]]
            ELSE /\ exc' = "ValueError"
                 /\ UNCHANGED Fields]_vars

\* sequential mode entered from lead-time mode, with real history and
\* prediction windows and more than one sample
C6_Witness ==
    /\ lastCall.op = "set_sequential_representation"
    /\ exc = "none"
    /\ lastCall.a > 0 /\ lastCall.b > 0
    /\ lead_time_data # <<>>
    /\ DunderLen > 1

\* C7: after merge_closeness_period_trend(lead_time), whatever mode was active
\* before, __len__ is len_total - lead_time and for every index i in
\* [0, __len__) the sample is x_data = full[i], y_data = full[i + lead_time],
\* with i + lead_time inside the series.
C7_LeadTime ==
    lastCall.op = "merge_closeness_period_trend" =>
        /\ exc = "none"
        /\ use_lead_time
        /\ lead_time = lastCall.a
        /\ DunderLen = len_total - lastCall.a
        /\ \A i \in 0..(DunderLen - 1) :
              /\ i + lastCall.a < len_total
              /\ GetItem(i).exc = "none"
              /\ GetItem(i).sample =
                    [x_data |-> full_data[i + 1],
                     y_data |-> full_data[i + lastCall.a + 1]]

\* lead-time mode with a positive lead, entered from sequential mode, with
\* samples to serve
C7_Witness ==
    /\ lastCall.op = "merge_closeness_period_trend"
    /\ lastCall.a > 0
    /\ X_data # <<>>
    /\ DunderLen > 0

\* C8 as stated: no setup call changes X_closeness, X_period, X_trend, T_data,
\* P_data, the target Y_data, full_data or min_max_diff.
C8_NothingDiscardedAsStated ==
    [][phase = "ready" =>
        UNCHANGED <<X_closeness, X_period, X_trend, T_data, P_data, Y_data,
                    full_data, min_max_diff>>]_vars

\* C8 amended: every setup call leaves X_closeness, X_period, X_trend, T_data,
\* P_data, full_data and min_max_diff unchanged; merge_closeness_period_trend
\* leaves Y_data unchanged too, while a set_sequential_representation(h, p)
\* that returns replaces Y_data by the prediction windows full[i+h : i+h+p].
C8_NothingDiscardedAmended ==
    [][phase = "ready" =>
        /\ UNCHANGED <<X_closeness, X_period, X_trend, T_data, P_data,
                       full_data, min_max_diff>>
        /\ lastCall'.op = "merge_closeness_period_trend" => Y_data' = Y_data
        /\ (lastCall'.op = "set_sequential_representation" /\ exc' = "ValueError") =>
              Y_data' = Y_data
        /\ (lastCall'.op = "set_sequential_representation" /\ exc' = "none") =>
              Y_data' = [k \in 1..(len_total - lastCall'.a - lastCall'.b) |->
                            [m \in 1..lastCall'.b |-> full_data[k - 1 + lastCall'.a + m]]]]_vars

\* both setup calls have been made on a dataset whose windows hold samples,
\* and the target has been replaced
C8_Witness ==
    /\ phase = "ready"
    /\ lastDone = "set_sequential_representation"
    /\ lead_time_data # <<>>
    /\ X_closeness # <<>> /\ X_period # <<>> /\ X_trend # <<>>
    /\ Y_data # PySlice(full_data, number_of_skip_hours, len_total)

====
